---------------------------- MODULE Spec2Model ----------------------------
(***************************************************************************)
(* Model of the UTXO transaction visualizer's server side:                 *)
(*   - the "explain transaction" route handler GET(/api/tx/{txid}),         *)
(*     its upstream fan-out (Promise.all) and the summary it assembles;     *)
(*   - the change heuristic guessChangeOutputIndex.                         *)
(*                                                                         *)
(* A string the code inspects character by character (the identifier) is   *)
(* taken apart into the sequence of its UTF-16 code units by Chars and put *)
(* together again by Str.  A code unit is a one-character string, or, when *)
(* a TLA+ string cannot hold it, its escape such as "\\u00A0".  A          *)
(* JavaScript value that may be null/undefined is a sequence of length 0   *)
(* (absent) or 1 (present).                                                *)
(***************************************************************************)
EXTENDS Integers, Sequences, FiniteSets, TLC

VARIABLES
    rawTxid,    \* the route parameter as supplied by the caller
    pc,         \* position of the handler: "start", "primary", "ancestors", "done"
    primary,    \* state of the three reads of the first Promise.all
    tx,         \* body delivered by /tx/{txid}
    rawHex,     \* body delivered by /tx/{txid}/hex
    outspends,  \* body delivered by /tx/{txid}/outspends
    prevTxs,    \* per input: the slot of the second Promise.all
    calls,      \* every upstream path fetched so far, in issue order
    order,      \* indices of the ancestor fetches in the order they completed
    response,   \* the HTTP response of the handler, NoResponse before it returns
    args,       \* arguments of a pure function under evaluation
    result,     \* its result
    recent,     \* the read of /mempool/recent by the samples route, and its body
    samples,    \* the HTTP response of the samples route, NoResponse before it returns
    txidInput,      \* page: the text of the transaction id field
    sampleList,     \* page: the sample ids received from /api/samples
    samplesFetch,   \* page: the fetch of /api/samples: "idle", "pending", "done"
    loadingSamples, \* page: the flag saying the sample ids are being loaded
    shownTx,        \* page: the transaction displayed (the state tx), or null
    loadingTx,      \* page: the loading flag of the transaction
    error,          \* page: the error message displayed, or null
    step,           \* page: the explanation step, 1 to 5
    loads           \* page: every fetch of /api/tx/{txid} issued, in issue order

vars == <<rawTxid, pc, primary, tx, rawHex, outspends, prevTxs, calls, order,
          response, args, result, recent, samples, txidInput, sampleList,
          samplesFetch, loadingSamples, shownTx, loadingTx, error, step, loads>>

handlerVars == <<rawTxid, pc, primary, tx, rawHex, outspends, prevTxs, calls,
                 order, response>>

samplesVars == <<recent, samples>>

pageVars == <<txidInput, sampleList, samplesFetch, loadingSamples, shownTx,
              loadingTx, error, step, loads>>

\* The state outside the transaction route
otherVars == <<args, result, samplesVars, pageVars>>

-----------------------------------------------------------------------------
(* Optional values: x ?? d, x?.f                                            *)

Null == <<>>

Some(v) == <<v>>

\* x ?? d
Coalesce(x, d) == IF x = Null THEN d ELSE x[1]

RECURSIVE SumSeq(_)
SumSeq(s) == IF s = <<>> THEN 0 ELSE s[1] + SumSeq(Tail(s))

Max(a, b) == IF a >= b THEN a ELSE b

\* Array.prototype.map
Map(s, F(_, _)) == [i \in 1..Len(s) |-> F(s[i], i)]

\* Array.prototype.filter
Filter(s, P(_)) ==
    LET F[k \in 0..Len(s)] ==
            IF k = 0 THEN <<>>
            ELSE IF P(s[k]) THEN Append(F[k - 1], s[k]) ELSE F[k - 1]
    IN  F[Len(s)]

\* All sequences over S of length 0..n
SeqUpTo(S, n) == UNION {[1..k -> S] : k \in 0..n}

\* n characters, the pattern pat repeated
Rep(pat, n) == [i \in 1..n |-> pat[((i - 1) % Len(pat)) + 1]]

\* The string made of the characters cs
RECURSIVE Str(_)
Str(cs) == IF cs = <<>> THEN "" ELSE cs[1] \o Str(Tail(cs))

-----------------------------------------------------------------------------
(* Identifier validation: (rawTxid ?? "").trim(), /^[0-9a-fA-F]{64}$/       *)

TxidLen == 64

HexChars == {"0", "1", "2", "3", "4", "5", "6", "7", "8", "9",
             "a", "b", "c", "d", "e", "f", "A", "B", "C", "D", "E", "F"}

\* The code units String.prototype.trim removes: WhiteSpace and LineTerminator
\* of ECMAScript, U+0009 to U+000D, U+0020, U+00A0, U+1680, U+2000 to U+200A,
\* U+2028, U+2029, U+202F, U+205F, U+3000 and U+FEFF
WhiteSpace ==
    {"\t", "\n", "\\u000B", "\f", "\r", " ", "\\u00A0", "\\u1680",
     "\\u2000", "\\u2001", "\\u2002", "\\u2003", "\\u2004", "\\u2005",
     "\\u2006", "\\u2007", "\\u2008", "\\u2009", "\\u200A",
     "\\u2028", "\\u2029", "\\u202F", "\\u205F", "\\u3000", "\\uFEFF"}

RECURSIVE TrimStart(_)
TrimStart(s) ==
    IF s # <<>> /\ s[1] \in WhiteSpace THEN TrimStart(Tail(s)) ELSE s

RECURSIVE TrimEnd(_)
TrimEnd(s) ==
    IF s # <<>> /\ s[Len(s)] \in WhiteSpace
    THEN TrimEnd(SubSeq(s, 1, Len(s) - 1))
    ELSE s

\* String.prototype.trim
Trim(s) == TrimEnd(TrimStart(s))

\* TxidRegexTest without the anchors: /[0-9a-fA-F]{64}/ matches inside a longer string
TxidRegexUnanchored(s) ==
    \E k \in 0..(Len(s) - TxidLen) : \A i \in (k + 1)..(k + TxidLen) : s[i] \in HexChars

\* /^[0-9a-fA-F]{64}$/.test(s): the anchors leave no room for other characters
TxidRegexTest(s) ==
    /\ Len(s) = TxidLen
    /\ \A i \in 1..Len(s) : s[i] \in HexChars

-----------------------------------------------------------------------------
(* Change heuristic                                                        *)

\* !!a for an address a: null, undefined and the empty string are falsy
Truthy(a) == a # Null /\ a[1] # ""

\* inputs.map((i) => i.address).filter((a) => !!a), as a Set
inputAddresses(inputs) ==
    {inputs[i].address[1] : i \in {j \in 1..Len(inputs) : Truthy(inputs[j].address)}}

\* Indexed with positions counted from 1
IndexedFromOne(outputs) == Map(outputs, LAMBDA o, i : [o |-> o, idx |-> i])

\* outputs.map((o, idx) => ({ o, idx })); idx counts from 0
Indexed(outputs) == Map(outputs, LAMBDA o, i : [o |-> o, idx |-> i - 1])

\* AddressCandidates without the address filter: every output is a candidate
AddressCandidatesAll(inputs, outputs) == Indexed(outputs)

\* The outputs paying to an address of the input side, or all outputs if none does
AddressCandidates(inputs, outputs) ==
    LET matching == Filter(Indexed(outputs),
                           LAMBDA c : /\ Truthy(c.o.address)
                                      /\ c.o.address[1] \in inputAddresses(inputs))
    IN  IF Len(matching) = 0 THEN Indexed(outputs) ELSE matching

DUST_THRESHOLD == 1000

\* DustFiltered with the threshold itself counted as not dust: o.value >= 1000
DustFilteredInclusive(candidates) ==
    LET nonDust == Filter(candidates, LAMBDA c : c.o.value >= DUST_THRESHOLD)
    IN  IF Len(nonDust) > 0 THEN nonDust ELSE candidates

\* nonDust.length > 0 ? nonDust : candidates
DustFiltered(candidates) ==
    LET nonDust == Filter(candidates, LAMBDA c : c.o.value > DUST_THRESHOLD)
    IN  IF Len(nonDust) > 0 THEN nonDust ELSE candidates

\* base.sort((a, b) => a.o.value - b.o.value): a stable sort, ascending by value
RECURSIVE SortByValue(_)
SortByValue(base) ==
    IF base = <<>> THEN <<>>
    ELSE LET n    == Len(base)
             x    == base[n]
             rest == SortByValue(SubSeq(base, 1, n - 1))
             \* x, the last in input order, goes after every element that is not larger
             k    == Cardinality({i \in 1..Len(rest) : rest[i].o.value <= x.o.value})
         IN  SubSeq(rest, 1, k) \o <<x>> \o SubSeq(rest, k + 1, Len(rest))

\* TooFewOutputs with the bound off by one: outputs.length < 1
TooFewOutputsOffByOne(outputs) == Len(outputs) < 1

\* outputs.length < 2
TooFewOutputs(outputs) == Len(outputs) < 2

\* base[0]?.idx ?? null
FirstIdx(base) == IF base = <<>> THEN Null ELSE Some(base[1].idx)

\* guessChangeOutputIndex without the fallback to dust candidates: base is nonDust
guessChangeOutputIndexNonDustOnly(inputs, outputs) ==
    IF TooFewOutputs(outputs) THEN Null
    ELSE FirstIdx(SortByValue(Filter(AddressCandidates(inputs, outputs),
                                     LAMBDA c : c.o.value > DUST_THRESHOLD)))

guessChangeOutputIndex(inputs, outputs) ==
    IF TooFewOutputs(outputs) THEN Null
    ELSE FirstIdx(SortByValue(DustFiltered(AddressCandidates(inputs, outputs))))

-----------------------------------------------------------------------------
(* Assembly of the summary from the bodies the upstream delivered          *)

\* satsFromOutputs that leaves the second output out of the sum
satsFromOutputsSkipping(outputs) ==
    SumSeq(Map(outputs, LAMBDA o, i : IF i = 2 THEN 0 ELSE o.value))

\* outputs.reduce((sum, o) => sum + (o?.value ?? 0), 0)
satsFromOutputs(outputs) == SumSeq(Map(outputs, LAMBDA o, i : o.value))

\* PrevOut with an index beyond the ancestor's outputs clamped to the last one
PrevOutClamped(vin, prevTx) ==
    IF prevTx # Null /\ Len(prevTx[1].vout) > 0
    THEN Some(prevTx[1].vout[IF vin.vout + 1 <= Len(prevTx[1].vout)
                              THEN vin.vout + 1 ELSE Len(prevTx[1].vout)])
    ELSE Null

\* prevTx && typeof vin.vout === "number" ? prevTx.vout[vin.vout] : undefined
\* prevTx is null for a coinbase input; an index outside the array reads undefined.
PrevOut(vin, prevTx) ==
    IF prevTx # Null /\ vin.vout + 1 \in 1..Len(prevTx[1].vout)
    THEN Some(prevTx[1].vout[vin.vout + 1])
    ELSE Null

EnrichInput(vin, prevTx) ==
    LET prevOut == PrevOut(vin, prevTx)
    IN  [txid       |-> vin.txid,
         vout       |-> vin.vout,
         value      |-> IF prevOut = Null THEN 0 ELSE prevOut[1].value,
         address    |-> IF prevOut = Null THEN Null ELSE prevOut[1].scriptpubkey_address,
         scriptType |-> IF prevOut = Null THEN Null ELSE prevOut[1].scriptpubkey_type,
         isCoinbase |-> vin.is_coinbase]

\* tx.vin.map((vin, index) => ...) over prevTxs[index]
enrichedInputs(t, prevs) == Map(t.vin, LAMBDA vin, i : EnrichInput(vin, prevs[i]))

\* outspends[index]?.spent ?? false
Spent(spends, i) == IF i \in 1..Len(spends) THEN spends[i].spent ELSE FALSE

\* enrichedOutputs left in the order of the heuristic's sort, as if the sort
\* had been applied to the output array itself
enrichedOutputsSorted(txid, t, spends) ==
    LET outs == Map(t.vout, LAMBDA vout, i :
                    [txid       |-> txid,
                     vout       |-> i - 1,
                     value      |-> vout.value,
                     address    |-> vout.scriptpubkey_address,
                     scriptType |-> vout.scriptpubkey_type,
                     spent      |-> Spent(spends, i)])
    IN  Map(SortByValue(Indexed(outs)), LAMBDA c, i : c.o)

\* tx.vout.map((vout, index) => ...)
enrichedOutputs(txid, t, spends) ==
    Map(t.vout, LAMBDA vout, i :
        [txid       |-> txid,
         vout       |-> i - 1,
         value      |-> vout.value,
         address    |-> vout.scriptpubkey_address,
         scriptType |-> vout.scriptpubkey_type,
         spent      |-> Spent(spends, i)])

totalInput(inputs) == SumSeq(Map(inputs, LAMBDA e, i : e.value))

\* Fee with || in place of ??: a declared fee of 0 falls through to the difference
FeeOrFallback(declared, tin, tout) ==
    IF declared # Null /\ declared[1] # 0 THEN declared[1] ELSE Max(tin - tout, 0)

\* tx.fee ?? Math.max(totalInput - totalOutput, 0)
Fee(declared, tin, tout) == Coalesce(declared, Max(tin - tout, 0))

\* The TxExplainerResponse built once both joins have resolved
Summary(txid, t, hex, spends, prevs) ==
    LET ins  == enrichedInputs(t, prevs)
        outs == enrichedOutputs(txid, t, spends)
        tin  == totalInput(ins)
        tout == satsFromOutputs(t.vout)
    IN  [txid        |-> t.txid,
         fee         |-> Fee(t.fee, tin, tout),
         totalInput  |-> tin,
         totalOutput |-> tout,
         inputs      |-> ins,
         outputs     |-> outs,
         status      |-> [confirmed   |-> t.status.confirmed,
                          blockHeight |-> t.status.block_height,
                          blockHash   |-> t.status.block_hash,
                          blockTime   |-> t.status.block_time],
         details     |-> [version   |-> t.version,
                          locktime  |-> t.locktime,
                          size      |-> t.size,
                          weight    |-> t.weight,
                          vinCount  |-> Len(t.vin),
                          voutCount |-> Len(t.vout)],
         rawHex      |-> hex,
         changeOutputIndex |-> guessChangeOutputIndex(ins, outs)]

-----------------------------------------------------------------------------
(* The upstream ledger service and the requests the model issues            *)

MaxVin == 2

MaxVout == 2

\* A BlockstreamTx body
MkTx(id, fee, vin, vout) ==
    [txid |-> id, fee |-> fee, version |-> 2, locktime |-> 0,
     size |-> 222, weight |-> 561, vin |-> vin, vout |-> vout,
     status |-> [confirmed   |-> TRUE,
                 block_height |-> Some(100),
                 block_hash   |-> Some("00ab"),
                 block_time   |-> Null]]

MkOut(value, address, type) ==
    [value |-> value, scriptpubkey_address |-> address, scriptpubkey_type |-> type]

NoTx == MkTx("", Null, <<>>, <<>>)

\* Identifiers of two confirmed ancestor transactions, and the one a coinbase
\* input carries
P1 == Str(Rep(<<"1">>, TxidLen))

P2 == Str(Rep(<<"2">>, TxidLen))

CoinbaseTxid == Str(Rep(<<"0">>, TxidLen))

\* What the ledger holds for the ancestors: P1 has two outputs, P2 a single one
\* without a decodable address
Ledger(id) ==
    IF id = P1
    THEN MkTx(P1, Some(300), <<>>,
              <<MkOut(50000, Some("A"), Some("v0_p2wpkh")),
                MkOut(30000, Some("C"), Some("p2pkh"))>>)
    ELSE MkTx(id, Some(200), <<>>, <<MkOut(1000, Null, Null)>>)

\* Raw inputs: a reference to output 0 or 1 of P1 or P2, or a coinbase input
\* (whose index is 0xffffffff on the wire; the largest index TLC can hold
\* stands for it, like it beyond every output sequence)
Vins ==
    {[txid |-> id, vout |-> n, is_coinbase |-> FALSE] : id \in {P1, P2}, n \in {0, 1}}
    \cup {[txid |-> CoinbaseTxid, vout |-> 2147483646, is_coinbase |-> TRUE]}

\* Raw outputs of the explained transaction
Vouts == {MkOut(70000, Some("A"), Some("v0_p2wpkh")), MkOut(9000, Some("B"), Some("p2pkh"))}

\* Declared fees: omitted, zero, unequal to the arithmetic difference, negative
Fees == {Null, Some(0), Some(1000), Some(-1)}

\* Bodies /tx/{txid} may deliver
Txs(id) ==
    {MkTx(id, fee, vin, vout) :
        fee \in Fees, vin \in SeqUpTo(Vins, MaxVin), vout \in SeqUpTo(Vouts, MaxVout)}

\* Bodies /tx/{txid}/outspends may deliver
SpendLists == {<<>>, <<[spent |-> TRUE]>>, <<[spent |-> FALSE], [spent |-> TRUE]>>}

HexBody == "0200000001"

\* Identifiers a caller supplies, character by character: well-formed, wrapped
\* in white space, empty, blank, too short, too long, with a foreign character
\* at either end or inside, with white space inside, with a 0x prefix
HexPattern == <<"0", "a", "F", "9", "c", "D", "3", "b">>

GoodTxidChars == Rep(HexPattern, TxidLen)

GoodTxid == Str(GoodTxidChars)

RawTxidChars ==
    { GoodTxidChars,
      <<"\\u000B">> \o GoodTxidChars,
      <<" ", "\\uFEFF">> \o GoodTxidChars \o <<"\\u00A0", "\n">>,
      <<"\\u200B">> \o GoodTxidChars,
      <<>>,
      <<" ", "\t">>,
      Rep(HexPattern, TxidLen - 1),
      Rep(HexPattern, TxidLen + 1),
      <<"f">> \o GoodTxidChars,
      GoodTxidChars \o <<"e">>,
      [GoodTxidChars EXCEPT ![1] = "g"],
      [GoodTxidChars EXCEPT ![TxidLen] = "G"],
      [GoodTxidChars EXCEPT ![TxidLen \div 2] = " "],
      <<"0", "x">> \o Rep(HexPattern, TxidLen - 2) }

RawTxids == {Str(cs) : cs \in RawTxidChars}

\* The characters of a supplied string
CharsOf == [s \in RawTxids |-> CHOOSE cs \in RawTxidChars : Str(cs) = s]

Chars(s) == CharsOf[s]

-----------------------------------------------------------------------------
(* The route handler GET                                                   *)

Endpoints == {"tx", "hex", "outspends"}

\* The path fetched for an endpoint of transaction id
Path(e, id) ==
    "/tx/" \o id \o
        (IF e = "hex" THEN "/hex" ELSE IF e = "outspends" THEN "/outspends" ELSE "")

NoResponse == [status |-> 0]

\* The read of /mempool/recent before the samples route has issued it
IdleRead == [st |-> "idle", body |-> <<>>]

\* The page at its first render: the useState initial values; the effect that
\* loads the sample ids has not run yet
PageMounted ==
    /\ txidInput = ""
    /\ sampleList = <<>>
    /\ samplesFetch = "idle"
    /\ loadingSamples = FALSE
    /\ shownTx = <<>>
    /\ loadingTx = FALSE
    /\ error = <<>>
    /\ step = 1
    /\ loads = <<>>

BadRequest ==
    [status |-> 400,
     error  |-> "Please provide a valid 64-character hex transaction id."]

BadGateway ==
    [status |-> 502,
     error  |-> "Failed to fetch or decode transaction from Blockstream testnet API."]

Ok(body) == [status |-> 200, body |-> body]

\* const txid = (rawTxid ?? "").trim()
txidChars == Trim(Chars(rawTxid))

\* The trimmed string of every supplied string
TrimmedOf == [s \in RawTxids |-> Str(Trim(Chars(s)))]

txid == TrimmedOf[rawTxid]

\* The bodies /tx/{txid} may deliver, for every supplied string
TxsOf == [s \in RawTxids |-> Txs(TrimmedOf[s])]

\* A slot of the second Promise.all: null for a coinbase input, else a fetch
NullSlot == [st |-> "null", tx |-> Null]

PendingSlot == [st |-> "pending", tx |-> Null]

FailedSlot == [st |-> "failed", tx |-> Null]

OkSlot(t) == [st |-> "ok", tx |-> Some(t)]

\* AncestorSlot without the coinbase test: every input is fetched
AncestorSlotAlwaysFetch(vin) == PendingSlot

\* tx.vin.map((vin) => vin.is_coinbase ? null : fetchJson(`/tx/${vin.txid}`))
AncestorSlot(vin) == IF vin.is_coinbase THEN NullSlot ELSE PendingSlot

\* AncestorCalls with one fetch per distinct ancestor: a path already fetched for
\* an earlier input is not fetched again
AncestorCallsDistinct(t) ==
    LET paths == Map(Filter(t.vin, LAMBDA vin : AncestorSlot(vin).st = "pending"),
                     LAMBDA vin, i : Path("tx", vin.txid))
        F[k \in 0..Len(paths)] ==
            IF k = 0 THEN <<>>
            ELSE IF \E j \in 1..(k - 1) : paths[j] = paths[k]
                 THEN F[k - 1]
                 ELSE Append(F[k - 1], paths[k])
    IN  F[Len(paths)]

\* The paths that map fetches, in input order
AncestorCalls(t) ==
    Map(Filter(t.vin, LAMBDA vin : AncestorSlot(vin).st = "pending"),
        LAMBDA vin, i : Path("tx", vin.txid))

\* prevTxsResolved filled in completion order: the k-th fetch slot receives the
\* body of the k-th fetch to complete
prevTxsByCompletion(slots, ord) ==
    LET rank(i) == Cardinality({j \in 1..i : slots[j].st # "null"})
    IN  Map(slots, LAMBDA sl, i :
                IF sl.st = "null" THEN Null ELSE slots[ord[rank(i)]].tx)

\* The array the second Promise.all resolves to: slot i holds the body of fetch i
\* whatever the order ord in which the fetches completed
prevTxsResolved(slots, ord) == Map(slots, LAMBDA sl, i : sl.tx)

AllSettledOk(slots) == \A i \in 1..Len(slots) : slots[i].st \in {"null", "ok"}

\* Request with the primary reads issued before the identifier is validated
RequestFetchFirst ==
    /\ pc = "start"
    /\ primary' = [e \in Endpoints |-> "pending"]
    /\ calls' = calls \o <<Path("tx", txid), Path("hex", txid), Path("outspends", txid)>>
    /\ IF ~TxidRegexTest(txidChars)
       THEN response' = BadRequest /\ pc' = "done"
       ELSE pc' = "primary" /\ UNCHANGED response
    /\ UNCHANGED <<rawTxid, tx, rawHex, outspends, prevTxs, order, otherVars>>

\* The handler's synchronous prologue: validation, then the three primary reads
Request ==
    /\ pc = "start"
    /\ IF ~TxidRegexTest(txidChars)
       THEN /\ response' = BadRequest
            /\ pc' = "done"
            /\ UNCHANGED <<primary, calls>>
       ELSE /\ primary' = [e \in Endpoints |-> "pending"]
            /\ calls' = calls \o <<Path("tx", txid), Path("hex", txid),
                                   Path("outspends", txid)>>
            /\ pc' = "primary"
            /\ UNCHANGED response
    /\ UNCHANGED <<rawTxid, tx, rawHex, outspends, prevTxs, order, otherVars>>

\* AfterPrimary run as soon as the body of /tx/{txid} has arrived, without
\* waiting for the raw hex and the spend status
AfterPrimaryEager(np, t, hex, spends) ==
    IF pc = "primary" /\ np["tx"] = "ok"
    THEN LET slots == Map(t.vin, LAMBDA vin, i : AncestorSlot(vin))
         IN  /\ prevTxs' = slots
             /\ calls' = calls \o AncestorCalls(t)
             /\ IF AllSettledOk(slots)
                THEN /\ pc' = "done"
                     /\ response' = Ok(Summary(txid, t, hex, spends,
                                               prevTxsResolved(slots, order)))
                ELSE /\ pc' = "ancestors"
                     /\ UNCHANGED response
    ELSE UNCHANGED <<pc, prevTxs, calls, response>>

\* The continuation of the first Promise.all once its last read has succeeded:
\* the ancestor fetches are issued, and with none to wait for the summary is built
AfterPrimary(np, t, hex, spends) ==
    IF pc = "primary" /\ \A e \in Endpoints : np[e] = "ok"
    THEN LET slots == Map(t.vin, LAMBDA vin, i : AncestorSlot(vin))
         IN  /\ prevTxs' = slots
             /\ calls' = calls \o AncestorCalls(t)
             /\ IF AllSettledOk(slots)
                THEN /\ pc' = "done"
                     /\ response' = Ok(Summary(txid, t, hex, spends,
                                               prevTxsResolved(slots, order)))
                ELSE /\ pc' = "ancestors"
                     /\ UNCHANGED response
    ELSE UNCHANGED <<pc, prevTxs, calls, response>>

\* A primary read succeeds (res.ok, body decoded)
PrimaryOk(e) ==
    /\ primary[e] = "pending"
    /\ LET np == [primary EXCEPT ![e] = "ok"]
       IN  /\ primary' = np
           /\ \/ /\ e = "tx"
                 /\ tx' \in TxsOf[rawTxid]
                 /\ AfterPrimary(np, tx', rawHex, outspends)
                 /\ UNCHANGED <<rawHex, outspends>>
              \/ /\ e = "hex"
                 /\ rawHex' = HexBody
                 /\ AfterPrimary(np, tx, HexBody, outspends)
                 /\ UNCHANGED <<tx, outspends>>
              \/ /\ e = "outspends"
                 /\ \E sp \in SpendLists :
                        /\ outspends' = sp
                        /\ AfterPrimary(np, tx, rawHex, sp)
                 /\ UNCHANGED <<tx, rawHex>>
    /\ UNCHANGED <<rawTxid, order, otherVars>>

\* PrimaryFail where only the failure of /tx/{txid} is fatal
PrimaryFailSwallowed(e) ==
    /\ primary[e] = "pending"
    /\ primary' = [primary EXCEPT ![e] = "failed"]
    /\ IF pc = "primary" /\ e = "tx"
       THEN pc' = "done" /\ response' = BadGateway
       ELSE UNCHANGED <<pc, response>>
    /\ UNCHANGED <<rawTxid, tx, rawHex, outspends, prevTxs, calls, order, otherVars>>

\* A primary read fails (non-success status or network error): the rejection of
\* Promise.all reaches the catch block unless the handler has already returned
PrimaryFail(e) ==
    /\ primary[e] = "pending"
    /\ primary' = [primary EXCEPT ![e] = "failed"]
    /\ IF pc = "primary"
       THEN pc' = "done" /\ response' = BadGateway
       ELSE UNCHANGED <<pc, response>>
    /\ UNCHANGED <<rawTxid, tx, rawHex, outspends, prevTxs, calls, order, otherVars>>

\* The ancestor fetch of input i succeeds
AncestorOk(i) ==
    /\ i \in 1..Len(prevTxs)
    /\ prevTxs[i].st = "pending"
    /\ LET slots == [prevTxs EXCEPT ![i] = OkSlot(Ledger(tx.vin[i].txid))]
           ord   == Append(order, i)
       IN  /\ prevTxs' = slots
           /\ order' = ord
           /\ IF pc = "ancestors" /\ AllSettledOk(slots)
              THEN /\ pc' = "done"
                   /\ response' = Ok(Summary(txid, tx, rawHex, outspends,
                                             prevTxsResolved(slots, ord)))
              ELSE UNCHANGED <<pc, response>>
    /\ UNCHANGED <<rawTxid, primary, tx, rawHex, outspends, calls, otherVars>>

\* AncestorFail with the rejection left unhandled: the slot fails and the handler
\* never reaches its catch block
AncestorFailUnhandled(i) ==
    /\ i \in 1..Len(prevTxs)
    /\ prevTxs[i].st = "pending"
    /\ prevTxs' = [prevTxs EXCEPT ![i] = FailedSlot]
    /\ order' = Append(order, i)
    /\ UNCHANGED <<rawTxid, pc, response, primary, tx, rawHex, outspends, calls, otherVars>>

\* The ancestor fetch of input i fails: fetchJson throws inside Promise.all
AncestorFail(i) ==
    /\ i \in 1..Len(prevTxs)
    /\ prevTxs[i].st = "pending"
    /\ prevTxs' = [prevTxs EXCEPT ![i] = FailedSlot]
    /\ order' = Append(order, i)
    /\ IF pc = "ancestors"
       THEN pc' = "done" /\ response' = BadGateway
       ELSE UNCHANGED <<pc, response>>
    /\ UNCHANGED <<rawTxid, primary, tx, rawHex, outspends, calls, otherVars>>

Init ==
    /\ rawTxid \in RawTxids
    /\ pc = "start"
    /\ primary = [e \in Endpoints |-> "idle"]
    /\ tx = NoTx
    /\ rawHex = ""
    /\ outspends = <<>>
    /\ prevTxs = <<>>
    /\ calls = <<>>
    /\ order = <<>>
    /\ response = NoResponse
    /\ args = <<>>
    /\ result = <<>>
    /\ recent = IdleRead
    /\ samples = NoResponse
    /\ PageMounted

Next ==
    \/ Request
    \/ \E e \in Endpoints : PrimaryOk(e)
    \/ \E e \in Endpoints : PrimaryFail(e)
    \/ \E i \in 1..MaxVin : AncestorOk(i)
    \/ \E i \in 1..MaxVin : AncestorFail(i)

Spec == Init /\ [][Next]_vars

\* The handler is run once invoked, and every read that was issued is answered,
\* with success or with failure
Fairness ==
    /\ WF_vars(Request)
    /\ \A e \in Endpoints : WF_vars(PrimaryFail(e) \/ PrimaryOk(e))
    /\ \A i \in 1..MaxVin : WF_vars(AncestorFail(i) \/ AncestorOk(i))

SpecFair == Init /\ [][Next]_vars /\ Fairness

-----------------------------------------------------------------------------
(* The change heuristic on its own: guessChangeOutputIndex applied to        *)
(* bounded sequences of enriched inputs and outputs                          *)

MaxInputs == 2

MaxOutputs == 3

\* The address of an input is absent, the empty string, or one of two addresses
HeurAddresses == {Null, Some(""), Some("A"), Some("B")}

\* The address of an output is absent, the empty string, or an address that some
\* inputs have and others do not
HeurOutputAddresses == {Null, Some(""), Some("A")}

\* Dust below and at the threshold, and two values above it
HeurValues == {500, DUST_THRESHOLD, DUST_THRESHOLD + 1, 2000}

HeurInputs ==
    {Map(s, LAMBDA a, i :
            [txid |-> P1, vout |-> i - 1, value |-> 5000, address |-> a,
             scriptType |-> Null, isCoinbase |-> FALSE]) :
        s \in SeqUpTo(HeurAddresses, MaxInputs)}

HeurOutputs ==
    {Map(s, LAMBDA o, i :
            [txid |-> GoodTxid, vout |-> i - 1, value |-> o[1], address |-> o[2],
             scriptType |-> Null, spent |-> FALSE]) :
        s \in SeqUpTo(HeurValues \X HeurOutputAddresses, MaxOutputs)}

InitChange ==
    /\ rawTxid = GoodTxid
    /\ pc = "start"
    /\ primary = [e \in Endpoints |-> "idle"]
    /\ tx = NoTx
    /\ rawHex = ""
    /\ outspends = <<>>
    /\ prevTxs = <<>>
    /\ calls = <<>>
    /\ order = <<>>
    /\ response = NoResponse
    /\ \E ins \in HeurInputs, outs \in HeurOutputs :
           args = [inputs |-> ins, outputs |-> outs]
    /\ result = Null
    /\ recent = IdleRead
    /\ samples = NoResponse
    /\ PageMounted

\* changeOutputIndex: guessChangeOutputIndex(enrichedInputs, enrichedOutputs)
ApplyGuess ==
    /\ result = Null
    /\ result' = Some(guessChangeOutputIndex(args.inputs, args.outputs))
    /\ UNCHANGED <<handlerVars, args, samplesVars, pageVars>>

NextChange == ApplyGuess

SpecChange == InitChange /\ [][NextChange]_vars

-----------------------------------------------------------------------------
(* The samples route: GET /api/samples                                      *)

MaxRecent == 6

SAMPLE_LIMIT == 5

\* The transaction ids the upstream may list as recent
RecentIds == {P1, P2, GoodTxid}

\* Bodies of /mempool/recent: a list of entries { txid }, possibly empty
RecentLists == SeqUpTo({[txid |-> id] : id \in RecentIds}, MaxRecent)

\* Array.prototype.slice(start, end) for 0 <= start <= end
Slice(a, start, end) ==
    SubSeq(a, start + 1, IF end < Len(a) THEN end ELSE Len(a))

\* sampleTxids taking the last entries of the list: data.slice(-5)
sampleTxidsFromEnd(data) ==
    Map(SubSeq(data, Max(Len(data) - SAMPLE_LIMIT, 0) + 1, Len(data)),
        LAMBDA t, i : t.txid)

\* data.slice(0, 5).map((t) => t.txid)
sampleTxids(data) == Map(Slice(data, 0, SAMPLE_LIMIT), LAMBDA t, i : t.txid)

SamplesFailed ==
    [status |-> 502, error |-> "Failed to fetch sample testnet transactions."]

\* The route issues its single read
SamplesRequest ==
    /\ recent.st = "idle"
    /\ recent' = [st |-> "pending", body |-> <<>>]
    /\ UNCHANGED <<handlerVars, args, result, samples, pageVars>>

\* The read succeeds (res.ok, body decoded): the first ids are returned
RecentOk ==
    /\ recent.st = "pending"
    /\ \E data \in RecentLists :
           /\ recent' = [st |-> "ok", body |-> data]
           /\ samples' = Ok([txids |-> sampleTxids(data)])
    /\ UNCHANGED <<handlerVars, args, result, pageVars>>

\* The read fails (network error or non-success status): the catch block answers
RecentFail ==
    /\ recent.st = "pending"
    /\ recent' = [st |-> "failed", body |-> <<>>]
    /\ samples' = SamplesFailed
    /\ UNCHANGED <<handlerVars, args, result, pageVars>>

InitSamples ==
    /\ rawTxid = GoodTxid
    /\ pc = "start"
    /\ primary = [e \in Endpoints |-> "idle"]
    /\ tx = NoTx
    /\ rawHex = ""
    /\ outspends = <<>>
    /\ prevTxs = <<>>
    /\ calls = <<>>
    /\ order = <<>>
    /\ response = NoResponse
    /\ args = <<>>
    /\ result = <<>>
    /\ recent = IdleRead
    /\ samples = NoResponse
    /\ PageMounted

NextSamples ==
    \/ SamplesRequest
    \/ RecentOk
    \/ RecentFail

SpecSamples == InitSamples /\ [][NextSamples]_vars

-----------------------------------------------------------------------------
(* The page: Home, its load logic and its buttons                            *)

MaxLoads == 3

\* What the id field or the sample list may hold: nothing, an id, the same id
\* wrapped in white space, another id
PageStringChars ==
    { <<>>,
      GoodTxidChars,
      <<" ">> \o GoodTxidChars \o <<"\n">>,
      Rep(<<"1">>, TxidLen) }

PageStrings == {Str(cs) : cs \in PageStringChars}

\* (incomingTxid ?? txidInput).trim(), for every such string
PageTrimmedOf ==
    [s \in PageStrings |->
        Str(Trim(CHOOSE cs \in PageStringChars : Str(cs) = s))]

\* The txids of a body of /api/samples the page may receive: none, ids, or an
\* empty string in the first place
SampleLists == {<<>>, <<P1>>, <<P1, GoodTxid>>, <<"", P1>>}

\* The body of a successful answer of /api/tx/{txid}, as far as the page can tell
\* one answer from another
LoadedTx(id) == [txid |-> id]

\* A thrown value: an Error with its message, or something that is not an Error
ErrorOf(message) == [isError |-> TRUE, message |-> message]

NonError == [isError |-> FALSE]

\* The ways a load ends in the catch block: fetch rejects, res.json() rejects,
\* or the status is not ok and the body has an error text or none
FailedAnswers ==
    {[kind |-> "rejected", value |-> v] :
        v \in {ErrorOf("Failed to fetch"), NonError}}
    \cup {[kind |-> "badjson", value |-> ErrorOf("Unexpected end of JSON input")]}
    \cup {[kind |-> "status", error |-> e] :
            e \in {Null, Some(""), Some(BadGateway.error)}}

\* What reaches the catch block: the rejection, or
\* new Error(data.error || "Failed to load transaction.")
Thrown(answer) ==
    IF answer.kind = "status"
    THEN ErrorOf(IF Truthy(answer.error) THEN answer.error[1]
                 ELSE "Failed to load transaction.")
    ELSE answer.value

\* err instanceof Error ? err.message : "Something went wrong ..."
CaughtMessage(err) ==
    IF err.isError THEN err.message
    ELSE "Something went wrong while loading the transaction."

\* Everything but the page
nonPageVars == <<handlerVars, args, result, samplesVars>>

\* The effect of the first render starts: setLoadingSamples(true), fetch issued
LoadSamplesStart ==
    /\ samplesFetch = "idle"
    /\ samplesFetch' = "pending"
    /\ loadingSamples' = TRUE
    /\ UNCHANGED <<nonPageVars, txidInput, sampleList, shownTx, loadingTx, error,
                   step, loads>>

\* /api/samples answers ok with an array of ids: setSamples, then finally
SamplesLoaded ==
    /\ samplesFetch = "pending"
    /\ samplesFetch' = "done"
    /\ \E l \in SampleLists : sampleList' = l
    /\ loadingSamples' = FALSE
    /\ UNCHANGED <<nonPageVars, txidInput, shownTx, loadingTx, error, step, loads>>

\* /api/samples fails, or answers without an array of ids: only finally runs
SamplesNotLoaded ==
    /\ samplesFetch = "pending"
    /\ samplesFetch' = "done"
    /\ loadingSamples' = FALSE
    /\ UNCHANGED <<nonPageVars, txidInput, sampleList, shownTx, loadingTx, error,
                   step, loads>>

\* onChange of the id field
TypeTxid ==
    /\ \E s \in PageStrings : txidInput' = s
    /\ UNCHANGED <<nonPageVars, sampleList, samplesFetch, loadingSamples, shownTx,
                   loadingTx, error, step, loads>>

\* handleLoadTx up to its first await: the display is reset and the fetch issued
handleLoadTx(incomingTxid) ==
    LET id == PageTrimmedOf[Coalesce(incomingTxid, txidInput)]
    IN  IF id = ""
        THEN UNCHANGED <<error, loadingTx, shownTx, step, loads>>
        ELSE /\ error' = Null
             /\ loadingTx' = TRUE
             /\ shownTx' = Null
             /\ step' = 1
             /\ loads' = Append(loads, [txid |-> id, st |-> "pending"])

\* The Visualize button: disabled={loadingTx || !txidInput.trim()}
ClickVisualize ==
    /\ ~(loadingTx \/ PageTrimmedOf[txidInput] = "")
    /\ Len(loads) < MaxLoads
    /\ handleLoadTx(Null)
    /\ UNCHANGED <<nonPageVars, txidInput, sampleList, samplesFetch, loadingSamples>>

\* The sample button: disabled={loadingSamples}, and if (samples[0]) lets
\* nothing happen without a first sample id that is a non-empty string
ClickSample ==
    /\ ~loadingSamples
    /\ Len(loads) < MaxLoads
    /\ IF sampleList # <<>> /\ sampleList[1] # ""
       THEN /\ txidInput' = sampleList[1]
            /\ handleLoadTx(Some(sampleList[1]))
       ELSE UNCHANGED <<txidInput, error, loadingTx, shownTx, step, loads>>
    /\ UNCHANGED <<nonPageVars, sampleList, samplesFetch, loadingSamples>>

\* The fetch of load k is answered with a summary: setTx(data), then finally
LoadOk(k) ==
    /\ k \in 1..Len(loads)
    /\ loads[k].st = "pending"
    /\ loads' = [loads EXCEPT ![k].st = "ok"]
    /\ shownTx' = Some(LoadedTx(loads[k].txid))
    /\ loadingTx' = FALSE
    /\ UNCHANGED <<nonPageVars, txidInput, sampleList, samplesFetch, loadingSamples,
                   error, step>>

\* The fetch of load k ends in the catch block: setError, then finally
LoadFail(k) ==
    /\ k \in 1..Len(loads)
    /\ loads[k].st = "pending"
    /\ loads' = [loads EXCEPT ![k].st = "failed"]
    /\ \E a \in FailedAnswers : error' = Some(CaughtMessage(Thrown(a)))
    /\ loadingTx' = FALSE
    /\ UNCHANGED <<nonPageVars, txidInput, sampleList, samplesFetch, loadingSamples,
                   shownTx, step>>

\* StepControls: a numbered button, the previous and the next button
SetStep(n) ==
    /\ step' = n
    /\ UNCHANGED <<nonPageVars, txidInput, sampleList, samplesFetch, loadingSamples,
                   shownTx, loadingTx, error, loads>>

goPrev ==
    /\ step # 1
    /\ step' = Max(1, step - 1)
    /\ UNCHANGED <<nonPageVars, txidInput, sampleList, samplesFetch, loadingSamples,
                   shownTx, loadingTx, error, loads>>

goNext ==
    /\ step # 5
    /\ step' = (IF step + 1 < 5 THEN step + 1 ELSE 5)
    /\ UNCHANGED <<nonPageVars, txidInput, sampleList, samplesFetch, loadingSamples,
                   shownTx, loadingTx, error, loads>>

InitPage ==
    /\ rawTxid = GoodTxid
    /\ pc = "start"
    /\ primary = [e \in Endpoints |-> "idle"]
    /\ tx = NoTx
    /\ rawHex = ""
    /\ outspends = <<>>
    /\ prevTxs = <<>>
    /\ calls = <<>>
    /\ order = <<>>
    /\ response = NoResponse
    /\ args = <<>>
    /\ result = <<>>
    /\ recent = IdleRead
    /\ samples = NoResponse
    /\ PageMounted

NextPage ==
    \/ LoadSamplesStart
    \/ SamplesLoaded
    \/ SamplesNotLoaded
    \/ TypeTxid
    \/ ClickVisualize
    \/ ClickSample
    \/ \E k \in 1..MaxLoads : LoadOk(k)
    \/ \E k \in 1..MaxLoads : LoadFail(k)
    \/ \E n \in 1..5 : SetStep(n)
    \/ goPrev
    \/ goNext

SpecPage == InitPage /\ [][NextPage]_vars

-----------------------------------------------------------------------------
(* Properties of the handler (checked under Spec)                           *)

AllPrimaryOk == \A e \in Endpoints : primary[e] = "ok"

\* The supplied string is a block of 64 hexadecimal characters with nothing but
\* white space before and after it
IsPadded64Hex(s) ==
    \E a \in 0..Len(s) :
        /\ a + TxidLen <= Len(s)
        /\ \A i \in 1..a : s[i] \in WhiteSpace
        /\ \A i \in (a + 1)..(a + TxidLen) : s[i] \in HexChars
        /\ \A i \in (a + TxidLen + 1)..Len(s) : s[i] \in WhiteSpace

\* The 64 characters between the white space of such a string
PaddedCore(s) ==
    LET a == CHOOSE k \in 0..Len(s) : \A i \in 1..Len(s) : s[i] \in WhiteSpace <=> i <= k \/ i > k + TxidLen
    IN  SubSeq(s, a + 1, a + TxidLen)

\* The supplied string is exactly 64 hexadecimal characters
IsExactly64Hex(s) == Len(s) = TxidLen /\ \A i \in 1..Len(s) : s[i] \in HexChars

\* The supplied strings of each kind, and the 64 characters the padded ones hold
PaddedRawTxids == {s \in RawTxids : IsPadded64Hex(Chars(s))}

ExactRawTxids == {s \in RawTxids : IsExactly64Hex(Chars(s))}

CoreOf == [s \in PaddedRawTxids |-> Str(PaddedCore(Chars(s)))]

\* Supplied strings of 64 characters, one of them not hexadecimal
NonHexRawTxids ==
    {s \in RawTxids : /\ Len(Chars(s)) = TxidLen
                      /\ \E i \in 1..TxidLen : Chars(s)[i] \notin HexChars}

\* C1: a malformed identifier (wrong length or a non-hex character) is answered
\* with status 400, and a request answered with 400 has issued no upstream call
\* at all, neither a primary read nor an ancestor fetch, then or later.
C1_RejectedBeforeAnyCall ==
    /\ (pc # "start" /\ rawTxid \notin PaddedRawTxids) => response = BadRequest
    /\ response.status = 400 =>
           /\ calls = <<>>
           /\ \A e \in Endpoints : primary[e] = "idle"
           /\ prevTxs = <<>>

\* A 64-character identifier with a non-hex character has been rejected
C1_Witness ==
    /\ pc = "done"
    /\ response.status = 400
    /\ rawTxid \in NonHexRawTxids

\* C2 as stated: the identifier reaches the upstream reads if and only if the
\* supplied string is exactly 64 hexadecimal characters; any extra leading or
\* trailing character gets status 400.
C2_Original ==
    pc # "start" => (response.status # 400 <=> rawTxid \in ExactRawTxids)

\* C2 amended: the identifier reaches the upstream reads if and only if the
\* supplied string, leading and trailing white space removed, is exactly 64
\* hexadecimal characters; every other string is rejected with status 400 and
\* the reads are issued for the trimmed identifier.
C2_Amended ==
    pc # "start" =>
        /\ response.status # 400 <=> rawTxid \in PaddedRawTxids
        /\ response.status # 400 =>
               /\ Len(calls) >= 3
               /\ calls[1] = "/tx/" \o CoreOf[rawTxid]
               /\ calls[2] = "/tx/" \o CoreOf[rawTxid] \o "/hex"
               /\ calls[3] = "/tx/" \o CoreOf[rawTxid] \o "/outspends"

\* An identifier wrapped in white space has been let through to the reads
C2_Witness ==
    /\ pc = "primary"
    /\ rawTxid \in PaddedRawTxids \ ExactRawTxids
    /\ \A e \in Endpoints : primary[e] = "pending"

\* C3: once any of the three primary reads has failed, the request has answered
\* with status 502 and no summary, whatever the other reads did or will do.
C3_PrimaryFailureIs502 ==
    (\E e \in Endpoints : primary[e] = "failed") => (pc = "done" /\ response = BadGateway)

\* The raw hex read failed after the two other reads had succeeded
C3_Witness ==
    /\ primary["hex"] = "failed"
    /\ primary["tx"] = "ok"
    /\ primary["outspends"] = "ok"
    /\ response.status = 502

\* C4 as stated: with the three primary reads successful, a failed ancestor fetch
\* never aborts the request; the summary is returned and the affected input has
\* value 0, address null and script type null.
C4_AncestorFailureContained ==
    (pc = "done" /\ AllPrimaryOk) =>
        /\ response.status = 200
        /\ \A i \in 1..Len(prevTxs) :
               prevTxs[i].st = "failed" =>
                   /\ response.body.inputs[i].value = 0
                   /\ response.body.inputs[i].address = Null
                   /\ response.body.inputs[i].scriptType = Null

\* C5: a coinbase input never has an ancestor fetch issued for it (its slot is
\* the literal null and no call names its transaction id), and in every summary
\* it resolves to value 0, address null, script type null, isCoinbase true,
\* wherever it stands in the input sequence.
C5_CoinbaseNeverFetched ==
    /\ \A i \in 1..Len(prevTxs) : tx.vin[i].is_coinbase => prevTxs[i] = NullSlot
    /\ \A k \in 1..Len(calls) : calls[k] # "/tx/" \o CoinbaseTxid
    /\ response.status = 200 =>
           \A i \in 1..Len(tx.vin) :
               tx.vin[i].is_coinbase =>
                   /\ response.body.inputs[i].value = 0
                   /\ response.body.inputs[i].address = Null
                   /\ response.body.inputs[i].scriptType = Null
                   /\ response.body.inputs[i].isCoinbase = TRUE

\* A summary whose second input is coinbase, after an input that was fetched
C5_Witness ==
    /\ response.status = 200
    /\ Len(tx.vin) = 2
    /\ ~tx.vin[1].is_coinbase
    /\ tx.vin[2].is_coinbase

\* What the ledger holds for the output a raw input references, if anything
ReferencedOutput(vin) ==
    IF ~vin.is_coinbase /\ vin.vout < Len(Ledger(vin.txid).vout)
    THEN Some(Ledger(vin.txid).vout[vin.vout + 1])
    ELSE Null

\* C6: the resolved inputs of a summary are as many as the raw inputs, and
\* resolved input i carries the reference of raw input i and the value, address
\* and script type of the ancestor output that raw input i references, in
\* whatever order the ancestor fetches completed.
C6_InputsIndexAligned ==
    response.status = 200 =>
        /\ Len(response.body.inputs) = Len(tx.vin)
        /\ \A i \in 1..Len(tx.vin) :
               LET inp == response.body.inputs[i]
                   ref == ReferencedOutput(tx.vin[i])
               IN  /\ inp.txid = tx.vin[i].txid
                   /\ inp.vout = tx.vin[i].vout
                   /\ inp.isCoinbase = tx.vin[i].is_coinbase
                   /\ inp.value = (IF ref = Null THEN 0 ELSE ref[1].value)
                   /\ inp.address = (IF ref = Null THEN Null ELSE ref[1].scriptpubkey_address)
                   /\ inp.scriptType = (IF ref = Null THEN Null ELSE ref[1].scriptpubkey_type)

\* A summary of two inputs on different ancestors whose fetches completed in the
\* reverse of the input order
C6_Witness ==
    /\ response.status = 200
    /\ order = <<2, 1>>
    /\ tx.vin[1].txid # tx.vin[2].txid

\* C7: the fee of a summary is the declared fee verbatim when the upstream
\* declares one (0 and values unequal to totalInput - totalOutput included), and
\* max(totalInput - totalOutput, 0) when the upstream omits it.
C7_FeeDeclaredOrDifference ==
    response.status = 200 =>
        LET b == response.body
        IN  IF tx.fee # Null
            THEN b.fee = tx.fee[1]
            ELSE b.fee = Max(b.totalInput - b.totalOutput, 0)

\* A summary with a declared fee of 0 although the inputs exceed the outputs
C7_Witness ==
    /\ response.status = 200
    /\ tx.fee = Some(0)
    /\ response.body.totalInput > response.body.totalOutput
    /\ response.body.fee = 0

\* C8 as stated: in every summary totalInput, totalOutput and fee are >= 0, a
\* declared fee that is not non-negative being replaced by
\* max(totalInput - totalOutput, 0).
C8_TotalsAndFeeNonNegative ==
    response.status = 200 =>
        LET b == response.body
        IN  /\ b.totalInput >= 0
            /\ b.totalOutput >= 0
            /\ b.fee >= 0
            /\ (tx.fee # Null /\ tx.fee[1] < 0) =>
                   b.fee = Max(b.totalInput - b.totalOutput, 0)

\* A read of the request that was issued and has neither succeeded nor failed
ReadInFlight ==
    \/ \E e \in Endpoints : primary[e] = "pending"
    \/ \E i \in 1..Len(prevTxs) : prevTxs[i].st = "pending"

\* C12: a response, summary or failure, is emitted only once every read issued
\* for the request (transaction, raw hex, spend status, each ancestor fetch) has
\* completed: no read is in flight in a state where the response exists.
C12_NoReadInFlightAtResponse ==
    response # NoResponse => ~ReadInFlight

\* The fields of a TxExplainerResponse
SummaryFields ==
    {"txid", "fee", "totalInput", "totalOutput", "inputs", "outputs", "status",
     "details", "rawHex", "changeOutputIndex"}

\* The response, if any, is an error of status 400 or 502 without a summary, or a
\* summary with every field, built from all the reads of the request
WholeResponse ==
    \/ response = NoResponse
    \/ /\ response.status \in {400, 502}
       /\ DOMAIN response = {"status", "error"}
    \/ /\ response.status = 200
       /\ DOMAIN response = {"status", "body"}
       /\ DOMAIN response.body = SummaryFields
       /\ AllPrimaryOk
       /\ \A i \in 1..Len(prevTxs) : prevTxs[i].st \in {"null", "ok"}
       /\ Len(prevTxs) = Len(tx.vin)
       /\ Len(response.body.inputs) = Len(tx.vin)
       /\ Len(response.body.outputs) = Len(tx.vout)
       /\ response.body.rawHex = rawHex
       /\ response.body.txid = tx.txid

\* C13: provided the handler runs and every issued read is eventually answered,
\* every request eventually has a response; the response, once emitted, is never
\* replaced by another; and it is either a whole summary or an error of status
\* 400 or 502, never a partial summary.
C13_ExactlyOneWholeResponse ==
    /\ <>(response # NoResponse)
    /\ [][response # NoResponse => response' = response]_vars
    /\ []WholeResponse

\* A summary emitted after two ancestor fetches, both answered with success
C13_Witness ==
    /\ pc = "done"
    /\ response.status = 200
    /\ DOMAIN response.body = SummaryFields
    /\ Len(order) = 2
    /\ \A i \in 1..2 : prevTxs[i].st = "ok"

\* C16: when every read of the request succeeded the summary is returned even
\* if an input references an output index its ancestor does not have; such an
\* input resolves to value 0, address null, script type null, and an input whose
\* index is in range copies value, address and script type from the output at
\* exactly that index of the ancestor body that was delivered for it.
C16_OutOfRangeIndexUnresolved ==
    /\ (/\ pc = "done"
        /\ AllPrimaryOk
        /\ \A i \in 1..Len(prevTxs) : prevTxs[i].st \in {"null", "ok"})
           => response.status = 200
    /\ response.status = 200 =>
           \A i \in 1..Len(prevTxs) :
               prevTxs[i].st = "ok" =>
                   LET anc == prevTxs[i].tx[1].vout
                       k   == tx.vin[i].vout
                       inp == response.body.inputs[i]
                   IN  IF k >= Len(anc)
                       THEN /\ inp.value = 0
                            /\ inp.address = Null
                            /\ inp.scriptType = Null
                       ELSE /\ inp.value = anc[k + 1].value
                            /\ inp.address = anc[k + 1].scriptpubkey_address
                            /\ inp.scriptType = anc[k + 1].scriptpubkey_type

\* A summary whose first input points past the single output of its ancestor and
\* whose second input points at the second output of a two-output ancestor
C16_Witness ==
    /\ response.status = 200
    /\ Len(prevTxs) = 2
    /\ \A i \in 1..2 : prevTxs[i].st = "ok"
    /\ tx.vin[1].vout = 1
    /\ Len(prevTxs[1].tx[1].vout) = 1
    /\ response.body.inputs[1].value = 0
    /\ tx.vin[2].vout = 1
    /\ Len(prevTxs[2].tx[1].vout) = 2
    /\ response.body.inputs[2].value = prevTxs[2].tx[1].vout[2].value

\* The sum of the value fields of a sequence of records
SumOfValues(s) ==
    LET S[k \in 0..Len(s)] == IF k = 0 THEN 0 ELSE S[k - 1] + s[k].value
    IN  S[Len(s)]

\* C17: in every summary totalInput is the sum of the values of the resolved
\* inputs, a coinbase or unresolved input counting 0; totalOutput is the sum of
\* the raw output values; details.vinCount and details.voutCount are the lengths
\* of the input and output sequences.
C17_TotalsAreSums ==
    response.status = 200 =>
        LET b == response.body
        IN  /\ b.totalInput = SumOfValues(b.inputs)
            /\ \A i \in 1..Len(tx.vin) :
                   ReferencedOutput(tx.vin[i]) = Null => b.inputs[i].value = 0
            /\ b.totalOutput = SumOfValues(tx.vout)
            /\ b.details.vinCount = Len(b.inputs)
            /\ b.details.vinCount = Len(tx.vin)
            /\ b.details.voutCount = Len(b.outputs)
            /\ b.details.voutCount = Len(tx.vout)

\* A summary of a coinbase input and an input worth 30000, with two outputs of
\* different values
C17_Witness ==
    /\ response.status = 200
    /\ response.body.details.vinCount = 2
    /\ response.body.details.voutCount = 2
    /\ tx.vin[1].is_coinbase
    /\ response.body.inputs[2].value = 30000
    /\ response.body.totalInput = 30000
    /\ tx.vout[1].value # tx.vout[2].value
    /\ response.body.totalOutput = tx.vout[1].value + tx.vout[2].value

\* How many times a path has been fetched
Occurrences(path) == Cardinality({k \in 1..Len(calls) : calls[k] = path})

\* The inputs of the transaction that are not coinbase and reference ancestor id
InputsOn(id) == {i \in 1..Len(tx.vin) : ~tx.vin[i].is_coinbase /\ tx.vin[i].txid = id}

\* C18: a request with a valid identifier fetches each of the three primary
\* paths exactly once, whatever fails later; once the three primary reads have
\* succeeded it has fetched every ancestor as many times as there are
\* non-coinbase inputs referencing it, two inputs on the same ancestor giving two
\* fetches, and nothing else; no path is fetched again after a failure.
C18_OneCallPerReadAndInput ==
    /\ (pc # "start" /\ response.status # 400) =>
           /\ Occurrences("/tx/" \o CoreOf[rawTxid]) = 1
           /\ Occurrences("/tx/" \o CoreOf[rawTxid] \o "/hex") = 1
           /\ Occurrences("/tx/" \o CoreOf[rawTxid] \o "/outspends") = 1
    /\ AllPrimaryOk =>
           /\ \A id \in {P1, P2, CoinbaseTxid} :
                  Occurrences("/tx/" \o id) = Cardinality(InputsOn(id))
           /\ Len(calls) =
                  3 + Cardinality({i \in 1..Len(tx.vin) : ~tx.vin[i].is_coinbase})

\* Two inputs spend outputs of the same ancestor: it was fetched twice, the first
\* fetch failed, the second succeeded, and there are five calls in all
C18_Witness ==
    /\ AllPrimaryOk
    /\ Len(tx.vin) = 2
    /\ Cardinality(InputsOn(P1)) = 2
    /\ Len(calls) = 5
    /\ calls[4] = calls[5]
    /\ prevTxs[1].st = "failed"
    /\ prevTxs[2].st = "ok"

\* C19: the outputs of a summary are in upstream order, whatever the change
\* heuristic sorted: output i has vout = i, the value and address of raw output
\* i, and spent as entry i of the spend-status list says, or false when the list
\* has no entry i.
C19_OutputsInUpstreamOrder ==
    response.status = 200 =>
        /\ Len(response.body.outputs) = Len(tx.vout)
        /\ \A i \in 0..(Len(tx.vout) - 1) :
               LET out == response.body.outputs[i + 1]
               IN  /\ out.vout = i
                   /\ out.value = tx.vout[i + 1].value
                   /\ out.address = tx.vout[i + 1].scriptpubkey_address
                   /\ out.spent = (IF i < Len(outspends)
                                   THEN outspends[i + 1].spent ELSE FALSE)

\* Two outputs in descending order of value, the heuristic chose the second, the
\* spend-status list has one entry only, and it says spent
C19_Witness ==
    /\ response.status = 200
    /\ Len(tx.vout) = 2
    /\ tx.vout[1].value > tx.vout[2].value
    /\ response.body.changeOutputIndex = Some(1)
    /\ Len(outspends) = 1
    /\ response.body.outputs[1].spent = TRUE
    /\ response.body.outputs[2].spent = FALSE

\* The positions in the call log of fetches of an ancestor transaction
AncestorFetches ==
    {k \in 1..Len(calls) : calls[k] \in {"/tx/" \o id : id \in {P1, P2, CoinbaseTxid}}}

\* C20: as long as one of the three primary reads has not succeeded, whether it
\* is pending or has failed, no ancestor fetch has been issued; a request with a
\* failed primary read never issues one.
C20_NoAncestorFetchBeforePrimary ==
    ~AllPrimaryOk =>
        /\ AncestorFetches = {}
        /\ Len(calls) <= 3
        /\ prevTxs = <<>>

\* The transaction body arrived with an input to resolve and the spend status
\* arrived too, but the raw hex read failed: three calls and no more
C20_Witness ==
    /\ primary["tx"] = "ok"
    /\ primary["outspends"] = "ok"
    /\ primary["hex"] = "failed"
    /\ \E i \in 1..Len(tx.vin) : ~tx.vin[i].is_coinbase
    /\ pc = "done"
    /\ Len(calls) = 3
    /\ AncestorFetches = {}

-----------------------------------------------------------------------------
(* Properties of the change heuristic (checked under SpecChange)            *)

\* C9: changeOutputIndex is null or an index i with 0 <= i < number of outputs,
\* for every combination of resolved inputs and outputs.
C9_ChangeIndexInRange ==
    result # Null =>
        \/ result[1] = Null
        \/ result[1][1] \in 0..(Len(args.outputs) - 1)

\* The heuristic chose the last of three outputs
C9_Witness ==
    /\ result # Null
    /\ result[1] # Null
    /\ Len(args.outputs) = MaxOutputs
    /\ result[1][1] = Len(args.outputs) - 1

\* C10: with fewer than two outputs (none or one) changeOutputIndex is null,
\* whatever the inputs and whatever the address and value of the output.
C10_FewerThanTwoOutputsNull ==
    (result # Null /\ Len(args.outputs) < 2) => result[1] = Null

\* A single non-dust output paying to an input address still yields null
C10_Witness ==
    /\ result = Some(Null)
    /\ Len(args.outputs) = 1
    /\ args.outputs[1].value > DUST_THRESHOLD
    /\ args.outputs[1].address # Null
    /\ \E i \in 1..Len(args.inputs) : args.inputs[i].address = args.outputs[1].address

\* The 0-based indices of the outputs whose address is non-null and equals the
\* address of some resolved input
MatchingOutputs ==
    {i \in 0..(Len(args.outputs) - 1) :
        /\ args.outputs[i + 1].address # Null
        /\ \E j \in 1..Len(args.inputs) :
               args.inputs[j].address = args.outputs[i + 1].address}

\* Those of them whose address is not the empty string
PresentMatchingOutputs ==
    {i \in MatchingOutputs : args.outputs[i + 1].address # Some("")}

\* C11 as stated: with two or more outputs, whenever at least one output has a
\* non-null address equal to the address of a resolved input, changeOutputIndex
\* is the index of one of those outputs; when exactly one output matches, it is
\* that output's index.
C11_Original ==
    (result # Null /\ Len(args.outputs) >= 2 /\ MatchingOutputs # {}) =>
        /\ result[1] # Null
        /\ result[1][1] \in MatchingOutputs
        /\ \A i \in MatchingOutputs : MatchingOutputs = {i} => result[1][1] = i

\* C11 amended: with two or more outputs, whenever at least one output has a
\* present address (neither null nor the empty string) equal to the address of
\* a resolved input, changeOutputIndex is the index of one of those outputs;
\* when exactly one output matches, it is that output's index.
C11_ChosenAmongMatching ==
    (result # Null /\ Len(args.outputs) >= 2 /\ PresentMatchingOutputs # {}) =>
        /\ result[1] # Null
        /\ result[1][1] \in PresentMatchingOutputs
        /\ \A i \in PresentMatchingOutputs :
               PresentMatchingOutputs = {i} => result[1][1] = i

\* The only output with a present matching address is dust and is not the first
\* one; the first output is above the dust threshold and shares the empty
\* string with an input; the matching output is the one chosen
C11_Witness ==
    /\ result # Null
    /\ Len(args.outputs) = 3
    /\ PresentMatchingOutputs = {1}
    /\ 0 \in MatchingOutputs
    /\ args.outputs[2].value < DUST_THRESHOLD
    /\ \A i \in {1, 3} : args.outputs[i].value > DUST_THRESHOLD
    /\ result = Some(Some(1))

\* The reference choice for a set of matching outputs: among the matching
\* outputs, or all outputs when none matches, keep those of value strictly
\* above 1000 if there is one, else keep them all; of those take the least
\* value, and of the outputs of that value the first in output order
ReferenceChange(matching) ==
    LET outs    == args.outputs
        value(i) == outs[i + 1].value
        all     == 0..(Len(outs) - 1)
        cands   == IF matching = {} THEN all ELSE matching
        nonDust == {i \in cands : value(i) > 1000}
        base    == IF nonDust # {} THEN nonDust ELSE cands
        least   == {i \in base : \A j \in base : value(i) <= value(j)}
    IN  IF Len(outs) < 2 THEN Null
        ELSE Some(CHOOSE i \in least : \A j \in least : i <= j)

\* C15 as stated: for every input of the bounded domain guessChangeOutputIndex
\* returns what the reference algorithm returns, the candidates being the
\* outputs with a non-null address in the input address set, or all outputs if
\* there is none.
C15_Original ==
    result # Null => result[1] = ReferenceChange(MatchingOutputs)

\* C15 amended: for every input of the bounded domain guessChangeOutputIndex
\* returns what the reference algorithm returns: candidates are the outputs
\* whose address is present (neither null nor the empty string) and is the
\* address of an input, or all outputs if there is none; candidates above 1000
\* are kept if any exists (exactly 1000 is dust); the result is the index of the
\* least remaining value, the first in output order among equal values.
C15_EqualsReference ==
    result # Null => result[1] = ReferenceChange(PresentMatchingOutputs)

\* No output has a present matching address, though one shares the empty string
\* with an input; the first output is exactly at the threshold and set aside as
\* dust, the two others tie above it and the earlier of them is chosen
C15_Witness ==
    /\ result = Some(Some(1))
    /\ Len(args.outputs) = 3
    /\ PresentMatchingOutputs = {}
    /\ MatchingOutputs # {}
    /\ args.outputs[1].value = DUST_THRESHOLD
    /\ args.outputs[2].value = args.outputs[3].value
    /\ args.outputs[2].value > DUST_THRESHOLD

\* C21: changeOutputIndex is null if and only if there are fewer than two
\* outputs; with two or more outputs an index is always returned, also when no
\* output pays to an input address and every output is dust.
C21_NullOnlyBelowTwoOutputs ==
    result # Null => (result[1] = Null <=> Len(args.outputs) < 2)

\* Two or more outputs, none paying to an input address and none above the dust
\* threshold, and an index was returned
C21_Witness ==
    /\ result # Null
    /\ result[1] # Null
    /\ Len(args.outputs) >= 2
    /\ MatchingOutputs = {}
    /\ \A i \in 1..Len(args.outputs) : args.outputs[i].value <= DUST_THRESHOLD

-----------------------------------------------------------------------------
(* Properties of the samples route (checked under SpecSamples)              *)

\* C14: the samples route returns at most 5 identifiers, exactly the first
\* min(5, n) identifiers of the n entries of /mempool/recent in upstream order;
\* when the upstream read fails it answers with status 502 and no identifiers.
C14_FirstFiveInUpstreamOrder ==
    /\ recent.st = "ok" =>
           /\ samples.status = 200
           /\ LET ids == samples.body.txids
                  n   == Len(recent.body)
              IN  /\ Len(ids) <= 5
                  /\ Len(ids) = (IF n < 5 THEN n ELSE 5)
                  /\ \A k \in 1..Len(ids) : ids[k] = recent.body[k].txid
    /\ recent.st = "failed" =>
           /\ samples.status = 502
           /\ DOMAIN samples = {"status", "error"}
    /\ samples.status \in {200, 502} => recent.st \in {"ok", "failed"}

\* The upstream listed six entries, the sixth unlike the first, and five came back
C14_Witness ==
    /\ recent.st = "ok"
    /\ Len(recent.body) = 6
    /\ recent.body[6] # recent.body[1]
    /\ Len(samples.body.txids) = 5

-----------------------------------------------------------------------------
(* Properties of the page (checked under SpecPage)                          *)

\* A load of the page whose fetch has not been answered
LoadInFlight == \E k \in 1..Len(loads) : loads[k].st = "pending"

\* C22: whatever loads were issued from the two buttons and in whatever order
\* their answers arrived, the loading flag is true while a load is in flight,
\* and once none is in flight the page displays the result of the load issued
\* last: its transaction and no error, or its error and no transaction.
C22_LastLoadWins ==
    /\ LoadInFlight => loadingTx
    /\ (loads # <<>> /\ ~LoadInFlight) =>
           LET last == loads[Len(loads)]
           IN  IF last.st = "ok"
               THEN shownTx = Some([txid |-> last.txid]) /\ error = Null
               ELSE shownTx = Null /\ error # Null

=============================================================================
